---- MODULE Spec2Model ----
(***************************************************************************)
(* Model of the swift-jobs backend (swift-jobs-backend/server.js): the     *)
(* registration, login, job posting and matching routes, the               *)
(* completion-text parsing they share, the rows they write to the hosted   *)
(* database and the files multer leaves in the uploads directory.          *)
(* Spec is registration and posting, SpecAccounts the two registrations    *)
(* and login, SpecMatch the two matching routes.                           *)
(*                                                                         *)
(* Numbers: a score of the completion text is an integer number of         *)
(* thousandths (746 is 0.746); a score after toFixed(2) is an integer      *)
(* number of hundredths (75 is 0.75), which is also its percentage.        *)
(* Texts: a completion text is a sequence of tokens; "{" and "}" are the   *)
(* brace characters, "w" is a run of brace-free prose, and every other     *)
(* token is "," (a stray comma) or a brace-free, well-formed JSON member   *)
(* list ("key": value, ...), named in MatchMembers and the like.           *)
(***************************************************************************)
EXTENDS Integers, Sequences, FiniteSets, TLC

\* ------------------------------------------------------------------ bounds
\* rows of users and of job_seekers, rows of job_listings, requests to the
\* matching routes
MaxSeekers == 2
MaxJobs == 2
MaxRequests == 2
\* files in the uploads directory
MaxUploads == 2

\* --------------------------------------------------------------- constants
\* password.length < 6 is rejected
MinPasswordLen == 6
\* goodMatches keeps m.matchScore >= 0.75 (hundredths)
Threshold == 75
\* the fallback score 0.70 (thousandths, as a number of the completion text)
DefaultScore == 700
\* a field that is absent from the parsed object, or is not a number
Undefined == -999999

\* ------------------------------------------------------ completion texts
\* member lists of a matching answer: the three scores and the explanation
MatchMembers ==
  [ m850 |-> [match_score |-> 850, technical_fit |-> 900, behavioral_fit |-> 800, explanation |-> "e850"],
    m746 |-> [match_score |-> 746, technical_fit |-> 1204, behavioral_fit |-> -346, explanation |-> "e746"],
    m744 |-> [match_score |-> 744, technical_fit |-> 999, behavioral_fit |-> 4, explanation |-> "e744"],
    mNoFit |-> [match_score |-> 900, technical_fit |-> Undefined, behavioral_fit |-> 900, explanation |-> "eNoFit"] ]

\* member lists of a profile analysis and of a job analysis
ProfileMembers ==
  [ p3 |-> [skills |-> <<"sql", "teamwork">>, experience_years |-> 3,
            preferred_roles |-> <<"analyst">>, behavioral_traits |-> <<"teamwork:high">>] ]

JobMembers ==
  [ j1 |-> [required_skills |-> <<"sql">>, behavioral_traits |-> <<"teamwork:high">>,
            experience_level |-> "senior"] ]

MemberTokens == DOMAIN MatchMembers \cup DOMAIN ProfileMembers \cup DOMAIN JobMembers

\* the completion texts the completion API answers with
MatchTexts ==
  { <<"w">>,
    <<"w", "{", "m850", "}", "w">>,
    <<"{", "m746", "}">>,
    <<"{", "m744", "}">>,
    <<"{", "mNoFit", "}">>,
    <<"{", "m850", "}", "w", "{", "m744", "}">> }

ProfileTexts ==
  { <<>>,
    <<"w", "{", "p3", "}">>,
    <<"{", "p3", "}", "w", "}">>,
    <<"{", "p3", "}", "w", "{">>,
    <<"{", "w", "}">>,
    <<"}", "p3", "{">>,
    <<"{", "}">> }

JobTexts ==
  { <<"w">>,
    <<"{", "j1", "}", "w">>,
    <<"{", "j1", "}", "{", "j1", "}">>,
    <<"{", "j1">>,
    <<"{", "}">> }

\* -------------------------------------------------------------- parsing
\* positions of the brace characters of a text
OpenAt(text) == { i \in 1..Len(text) : text[i] = "{" }
CloseAt(text) == { i \in 1..Len(text) : text[i] = "}" }

Min(S) == CHOOSE x \in S : \A y \in S : x <= y
Max(S) == CHOOSE x \in S : \A y \in S : x >= y

\* a variant that stops at the first closing brace (a lazy quantifier)
JsonMatchLazy(text) ==
  LET opens == OpenAt(text)
  IN IF opens = {} THEN <<>>
     ELSE LET i == Min(opens)
              closes == { j \in CloseAt(text) : j > i }
          IN IF closes = {} THEN <<>> ELSE SubSeq(text, i, Min(closes))

\* text.match(/\{[\s\S]*\}/): the leftmost "{" and, the quantifier being
\* greedy, everything up to the last "}" after it; <<>> stands for null
JsonMatch(text) ==
  LET opens == OpenAt(text)
  IN IF opens = {} THEN <<>>
     ELSE LET i == Min(opens)
              closes == { j \in CloseAt(text) : j > i }
          IN IF closes = {} THEN <<>> ELSE SubSeq(text, i, Max(closes))

\* JSON.parse accepts "{" members "}" and "{" "}" and throws on the rest
JsonValid(span) ==
  \/ span = <<"{", "}">>
  \/ Len(span) = 3 /\ span[1] = "{" /\ span[3] = "}" /\ span[2] \in MemberTokens

\* the member list of a valid span ("" for the empty object)
JsonMembers(span) == IF Len(span) = 3 THEN span[2] ELSE ""

\* how the try block around match and JSON.parse ends
ParseOutcome(text) ==
  IF JsonMatch(text) = <<>> THEN "nomatch"
  ELSE IF JsonValid(JsonMatch(text)) THEN "parsed" ELSE "throws"

\* no JSON object can be parsed out of the text
Unparseable(text) == ParseOutcome(text) # "parsed"

\* --------------------------------------------------------------- numbers
\* x.toFixed(2) followed by parseFloat: thousandths to the nearest hundredth
\* (no score of the texts above lies exactly half way)
Round2(t) == IF t >= 0 THEN (t + 5) \div 10 ELSE 0 - ((5 - t) \div 10)

\* (x * 100).toFixed(0) + '%': the percentage of a score in hundredths
Percent(h) == <<h, "%">>

\* ------------------------------------------------------------ the scores
\* the object used when the text has no brace-delimited substring
DefaultMatchData ==
  [match_score |-> DefaultScore, technical_fit |-> DefaultScore,
   behavioral_fit |-> DefaultScore, explanation |-> "Good general fit"]

\* JSON.parse(jsonMatch[0]): the object of a valid span; a field the object
\* does not have reads as undefined
MatchDataOf(span) ==
  IF JsonMembers(span) \in DOMAIN MatchMembers THEN MatchMembers[JsonMembers(span)]
  ELSE [match_score |-> Undefined, technical_fit |-> Undefined,
        behavioral_fit |-> Undefined, explanation |-> "undefined"]

\* the explanation each route's catch block gives
CatchExplanation(route) ==
  IF route = "matches" THEN "Potential match based on profile"
  ELSE "Potential candidate based on requirements"

\* the object the catch block of the per-pair try returns
CatchResult(route, id) ==
  [id |-> id, matchScore |-> 70, technicalFit |-> 70, behavioralFit |-> 70,
   explanation |-> CatchExplanation(route)]

\* a variant whose fallback score is the threshold itself
ScorePairDefault75(route, id, text) ==
  IF ParseOutcome(text) = "parsed"
     /\ MatchDataOf(JsonMatch(text)).match_score # Undefined
     /\ MatchDataOf(JsonMatch(text)).technical_fit # Undefined
     /\ MatchDataOf(JsonMatch(text)).behavioral_fit # Undefined
  THEN LET d == MatchDataOf(JsonMatch(text))
       IN [id |-> id, matchScore |-> Round2(d.match_score),
           technicalFit |-> Round2(d.technical_fit),
           behavioralFit |-> Round2(d.behavioral_fit), explanation |-> d.explanation]
  ELSE [id |-> id, matchScore |-> 75, technicalFit |-> 75, behavioralFit |-> 75,
        explanation |-> CatchExplanation(route)]

\* the body of the per-pair callback after analyzeWithGroq has answered:
\* JSON.parse throwing, and toFixed called on a field that is not a number,
\* both end in the catch block
ScorePair(route, id, text) ==
  IF ParseOutcome(text) = "throws" THEN CatchResult(route, id)
  ELSE LET matchData == IF ParseOutcome(text) = "nomatch" THEN DefaultMatchData
                        ELSE MatchDataOf(JsonMatch(text))
       IN IF \/ matchData.match_score = Undefined
             \/ matchData.technical_fit = Undefined
             \/ matchData.behavioral_fit = Undefined
          THEN CatchResult(route, id)
          ELSE [id |-> id,
                matchScore |-> Round2(matchData.match_score),
                technicalFit |-> Round2(matchData.technical_fit),
                behavioralFit |-> Round2(matchData.behavioral_fit),
                explanation |-> matchData.explanation]

\* ------------------------------------------------------- filter and sort
\* the elements of s whose matchScore is at least min, in the order of s
RECURSIVE SelectSeqBy(_, _)
SelectSeqBy(s, min) ==
  IF s = <<>> THEN <<>>
  ELSE IF Head(s).matchScore >= min THEN <<Head(s)>> \o SelectSeqBy(Tail(s), min)
       ELSE SelectSeqBy(Tail(s), min)

\* a filter that keeps only the scores above the threshold
GoodMatchesStrict(results) == SelectSeqBy(results, Threshold + 1)

\* matchResults.filter(m => m.matchScore >= 0.75)
GoodMatches(results) == SelectSeqBy(results, Threshold)

\* x goes behind every element whose score is at least its own
RECURSIVE InsertDesc(_, _)
InsertDesc(x, s) ==
  IF s = <<>> THEN <<x>>
  ELSE IF Head(s).matchScore >= x.matchScore THEN <<Head(s)>> \o InsertDesc(x, Tail(s))
       ELSE <<x>> \o s

RECURSIVE SortFrom(_, _)
SortFrom(s, acc) == IF s = <<>> THEN acc ELSE SortFrom(Tail(s), InsertDesc(Head(s), acc))

\* a variant that leaves the list in the order of the results
SortDescNone(s) == s

\* list.sort((a, b) => b.matchScore - a.matchScore): stable, descending
SortDesc(s) == SortFrom(s, <<>>)

\* the .map after the sort: the three scores become percentages
ToPercent(m) ==
  [id |-> m.id, matchScore |-> Percent(m.matchScore),
   technicalFit |-> Percent(m.technicalFit),
   behavioralFit |-> Percent(m.behavioralFit), explanation |-> m.explanation]

MapPercent(s) == [k \in 1..Len(s) |-> ToPercent(s[k])]

\* ------------------------------------ the earlier version of the route
\* GET /api/matches/:seekerId as the second source file has it: the scores
\* are percentages, strings where they come from toFixed(0) and the number
\* 70 in the catch block; nothing is written to matches
NaN == -888888

\* Number(x) of a score <<"string" or "number", value>>
ToNumber(v) == v[2]

\* (x * 100).toFixed(0): "NaN" when x is not a number
PercentString(t) == IF t = Undefined THEN <<"string", NaN>> ELSE <<"string", Round2(t)>>

LegacyScorePair(id, text) ==
  IF ParseOutcome(text) = "throws"
  THEN [id |-> id, matchScore |-> <<"number", 70>>,
        explanation |-> "Potential match based on profile"]
  ELSE LET matchData == IF ParseOutcome(text) = "nomatch" THEN DefaultMatchData
                        ELSE MatchDataOf(JsonMatch(text))
       IN [id |-> id, matchScore |-> PercentString(matchData.match_score),
           explanation |-> matchData.explanation]

\* a >= b on numbers, false when either is NaN
NumGeq(a, b) == a # NaN /\ b # NaN /\ a >= b

RECURSIVE LegacyInsertDesc(_, _)
LegacyInsertDesc(x, s) ==
  IF s = <<>> THEN <<x>>
  ELSE IF NumGeq(ToNumber(Head(s).matchScore), ToNumber(x.matchScore))
       THEN <<Head(s)>> \o LegacyInsertDesc(x, Tail(s))
       ELSE <<x>> \o s

RECURSIVE LegacySortFrom(_, _)
LegacySortFrom(s, acc) ==
  IF s = <<>> THEN acc ELSE LegacySortFrom(Tail(s), LegacyInsertDesc(Head(s), acc))

\* matches.filter(m => m.matchScore >= 75)
LegacyKept(matchList) ==
  SelectSeq(matchList, LAMBDA m : NumGeq(ToNumber(m.matchScore), Threshold))

\* .filter(...).sort((a, b) => b.matchScore - a.matchScore)
LegacySortedMatches(matchList) == LegacySortFrom(LegacyKept(matchList), <<>>)

\* ------------------------------------------------------------- the state
VARIABLES
  users,         \* table users, in insertion order
  job_seekers,   \* table job_seekers
  job_listings,  \* table job_listings
  matches,       \* table matches
  lastWrite,     \* per (seeker, job) pair, the row of the latest upsert sent for it
  reqs,          \* the requests to the matching routes, by request number
  lastOp,        \* the response of the step just taken, when it was a whole request
  employers,     \* table employers
  uploads        \* the names of the files in the uploads directory

vars == <<users, job_seekers, job_listings, matches, lastWrite, reqs, lastOp,
          employers, uploads>>

SeekerIds == 1..MaxSeekers
JobIds == 1..MaxJobs
ReqIds == 1..MaxRequests

\* the result of a completion call that is still awaited, or has thrown
Pending == <<"#pending">>
Failed == <<"#failed">>

NoResult ==
  [id |-> 0, matchScore |-> 0, technicalFit |-> 0, behavioralFit |-> 0,
   explanation |-> "#none"]

NoRow ==
  [job_seeker_id |-> 0, job_listing_id |-> 0, match_score |-> 0,
   technical_fit |-> 0, behavioral_fit |-> 0, status |-> "#none"]

\* the body of an error response: res.status(...).json({ success: false, error })
ErrorBody(message) == [success |-> FALSE, error |-> message]

NoOp ==
  [route |-> "none", status |-> 0, called |-> FALSE, text |-> <<>>,
   inserted |-> FALSE, insertError |-> "none", level |-> "none",
   file |-> 0, body |-> ErrorBody("#none")]

IdleReq ==
  [pc |-> "idle", route |-> "none", target |-> 0, items |-> <<>>, recv |-> <<>>,
   results |-> <<>>, arrived |-> 0, calls |-> <<>>, had |-> <<>>,
   status |-> 0, body |-> <<>>, count |-> 0, upsert |-> "none", written |-> <<>>]

\* the rows of a table whose field f is v
Where(table, f, v) == SelectSeq(table, LAMBDA row : row[f] = v)

Range(s) == { s[k] : k \in 1..Len(s) }

\* the ids of the rows of a table, in the order of the table
Ids(table) == [k \in 1..Len(table) |-> table[k].id]

\* ----------------------------------------------------------- the tables
\* a field of the parsed object that the object does not have
Missing == <<"#undefined">>

\* x || []
OrEmpty(x) == IF x = Missing THEN <<>> ELSE x

\* the fixed defaults of POST /api/jobseeker/register (technical_skills and
\* soft_skills, both empty, are the one list skills here)
DefaultProfileData ==
  [skills |-> <<>>, experience_years |-> 0, preferred_roles |-> <<>>,
   behavioral_traits |-> <<>>]

\* JSON.parse(jsonMatch[0]) in the registration route
ProfileDataOf(span) ==
  IF JsonMembers(span) \in DOMAIN ProfileMembers THEN ProfileMembers[JsonMembers(span)]
  ELSE [skills |-> Missing, experience_years |-> Undefined,
        preferred_roles |-> Missing, behavioral_traits |-> Missing]

\* a variant whose catch block keeps what the prompt's example shows
ProfileDataCatchExample(analysis) ==
  IF ParseOutcome(analysis) = "parsed" THEN ProfileDataOf(JsonMatch(analysis))
  ELSE IF ParseOutcome(analysis) = "nomatch" THEN DefaultProfileData
  ELSE [DefaultProfileData EXCEPT !.experience_years = 3]

\* profileData: the parsed object, the defaults when there is no match, the
\* same defaults from the catch block when JSON.parse throws
ProfileData(analysis) ==
  IF ParseOutcome(analysis) = "parsed" THEN ProfileDataOf(JsonMatch(analysis))
  ELSE IF ParseOutcome(analysis) = "nomatch" THEN DefaultProfileData
  ELSE DefaultProfileData

\* the row inserted into job_seekers; is_active is not set by the route and
\* takes the value the table gives it
SeekerRow(id, userId, profileData, active) ==
  [id |-> id, user_id |-> userId,
   skills |-> OrEmpty(profileData.skills),
   experience_years |-> IF profileData.experience_years = Undefined THEN 0
                        ELSE profileData.experience_years,
   preferred_roles |-> OrEmpty(profileData.preferred_roles),
   behavioral_traits |-> OrEmpty(profileData.behavioral_traits),
   is_active |-> active]

\* the fixed defaults of the job posting route
DefaultJobData ==
  [required_skills |-> <<>>, behavioral_traits |-> <<>>, experience_level |-> "mid"]

\* JSON.parse(jsonMatch[0]) in the job posting route
JobDataOf(span) ==
  IF JsonMembers(span) \in DOMAIN JobMembers THEN JobMembers[JsonMembers(span)]
  ELSE [required_skills |-> Missing, behavioral_traits |-> Missing,
        experience_level |-> "#undefined"]

\* jobData: the parsed object, or the defaults
JobData(analysis) ==
  IF ParseOutcome(analysis) = "parsed" THEN JobDataOf(JsonMatch(analysis))
  ELSE DefaultJobData

\* the row inserted into job_listings
JobRow(id, employerId, jobDescription, jobData) ==
  [id |-> id, employer_id |-> employerId, description |-> jobDescription,
   required_skills |-> jobData.required_skills,
   behavioral_traits |-> jobData.behavioral_traits, is_active |-> TRUE]

\* the key of the unique constraint the upsert names in onConflict
SameKey(a, b) ==
  a.job_seeker_id = b.job_seeker_id /\ a.job_listing_id = b.job_listing_id

\* one row of an upsert with ignoreDuplicates: true
UpsertRowIgnore(table, row) ==
  IF \E k \in 1..Len(table) : SameKey(table[k], row) THEN table
  ELSE Append(table, row)

\* one row of .upsert(rows, {onConflict: 'job_seeker_id,job_listing_id',
\* ignoreDuplicates: false}): the row of the same key is replaced
UpsertRow(table, row) ==
  IF \E k \in 1..Len(table) : SameKey(table[k], row)
  THEN [k \in 1..Len(table) |-> IF SameKey(table[k], row) THEN row ELSE table[k]]
  ELSE Append(table, row)

RECURSIVE Upsert(_, _)
Upsert(table, rows) ==
  IF rows = <<>> THEN table ELSE Upsert(UpsertRow(table, Head(rows)), Tail(rows))

\* a variant that writes the two fits into each other's column
MatchesRowsSwapped(seekerId, kept) ==
  [k \in 1..Len(kept) |->
     [job_seeker_id |-> seekerId, job_listing_id |-> kept[k].id,
      match_score |-> kept[k].matchScore, technical_fit |-> kept[k].behavioralFit,
      behavioral_fit |-> kept[k].technicalFit, status |-> "pending"]]

\* matchesToInsert of GET /api/matches/:seekerId
MatchesRows(seekerId, kept) ==
  [k \in 1..Len(kept) |->
     [job_seeker_id |-> seekerId, job_listing_id |-> kept[k].id,
      match_score |-> kept[k].matchScore, technical_fit |-> kept[k].technicalFit,
      behavioral_fit |-> kept[k].behavioralFit, status |-> "pending"]]

\* matchesToInsert of GET /api/candidates/:jobId
CandidateRows(jobId, kept) ==
  [k \in 1..Len(kept) |->
     [job_seeker_id |-> kept[k].id, job_listing_id |-> jobId,
      match_score |-> kept[k].matchScore, technical_fit |-> kept[k].technicalFit,
      behavioral_fit |-> kept[k].behavioralFit, status |-> "pending"]]

\* lastWrite after the rows of an upsert have been written
Noted(last, rows) ==
  [p \in DOMAIN last |->
     IF \E k \in 1..Len(rows) : <<rows[k].job_seeker_id, rows[k].job_listing_id>> = p
     THEN rows[CHOOSE k \in 1..Len(rows) :
                 <<rows[k].job_seeker_id, rows[k].job_listing_id>> = p]
     ELSE last[p]]

\* --------------------------------------------------- the matching routes
\* a variant that keeps the results in the order the calls finish
PlaceResultArrival(results, i, arrived, res) == [results EXCEPT ![arrived + 1] = res]

\* Promise.all: the result of the i-th callback is the i-th element
PlaceResult(results, i, arrived, res) == [results EXCEPT ![i] = res]

\* a variant that answers a pair from its persisted row instead of calling
IssuedCallsCached(route, target, items) ==
  SelectSeq(items, LAMBDA id :
    ~ \E k \in 1..Len(matches) :
        IF route = "matches"
        THEN matches[k].job_seeker_id = target /\ matches[k].job_listing_id = id
        ELSE matches[k].job_seeker_id = id /\ matches[k].job_listing_id = target)

\* jobs.map / seekers.map: analyzeWithGroq is called once for every element
IssuedCalls(route, target, items) == items

\* the fetched rows whose pair has a row in matches as the calls are issued
AlreadyMatched(route, target, items) ==
  SelectSeq(items, LAMBDA id : id \notin Range(IssuedCallsCached(route, target, items)))

\* the request as it awaits Promise.all over the fetched rows
Awaiting(route, target, items) ==
  [IdleReq EXCEPT !.pc = "awaiting", !.route = route, !.target = target,
                  !.items = items,
                  !.recv = [k \in 1..Len(items) |-> Pending],
                  !.results = [k \in 1..Len(items) |-> NoResult],
                  !.calls = IssuedCalls(route, target, items),
                  !.had = AlreadyMatched(route, target, items)]

\* the request as the route's catch block answers it
Answered500(req) == [req EXCEPT !.pc = "done", !.status = 500]

CanStart(r) ==
  /\ reqs[r].pc = "idle"
  /\ r > 1 => reqs[r - 1].pc # "idle"

\* GET /api/matches/:seekerId up to the await of Promise.all
StartMatches(r, seekerId) ==
  /\ CanStart(r)
  /\ reqs' = [reqs EXCEPT ![r] =
       IF Len(Where(job_seekers, "id", seekerId)) # 1
       THEN Answered500([IdleReq EXCEPT !.route = "matches", !.target = seekerId])
       ELSE Awaiting("matches", seekerId, Ids(Where(job_listings, "is_active", TRUE)))]
  /\ lastOp' = NoOp
  /\ UNCHANGED <<users, job_seekers, job_listings, matches, lastWrite, employers, uploads>>

\* the query of the handler of GET /api/candidates/:jobId that is registered
\* second, which no request reaches
CandidateSeekersAll(table) == table

\* the seekers the candidates route selects: .eq('is_active', true)
CandidateSeekers(table) == Where(table, "is_active", TRUE)

\* GET /api/candidates/:jobId (the handler registered first, which answers
\* every request to the path) up to the await of Promise.all
StartCandidates(r, jobId) ==
  /\ CanStart(r)
  /\ reqs' = [reqs EXCEPT ![r] =
       IF Len(Where(job_listings, "id", jobId)) # 1
       THEN Answered500([IdleReq EXCEPT !.route = "candidates", !.target = jobId])
       ELSE Awaiting("candidates", jobId, Ids(CandidateSeekers(job_seekers)))]
  /\ lastOp' = NoOp
  /\ UNCHANGED <<users, job_seekers, job_listings, matches, lastWrite, employers, uploads>>

\* analyzeWithGroq resolves for the i-th pair and the callback scores it
CompletionReturns(r, i, text) ==
  /\ reqs[r].pc = "awaiting"
  /\ i \in 1..Len(reqs[r].items)
  /\ reqs[r].recv[i] = Pending
  /\ reqs' = [reqs EXCEPT ![r] =
       [@ EXCEPT !.recv = [@ EXCEPT ![i] = text],
                 !.results = PlaceResult(@, i, reqs[r].arrived,
                               ScorePair(reqs[r].route, reqs[r].items[i], text)),
                 !.arrived = @ + 1]]
  /\ lastOp' = NoOp
  /\ UNCHANGED <<users, job_seekers, job_listings, matches, lastWrite, employers, uploads>>

\* a variant that treats a failed call like an answer without an object
OnCompletionFailsDefault(req, i) ==
  [req EXCEPT !.recv = [@ EXCEPT ![i] = Failed],
              !.results = PlaceResult(@, i, req.arrived,
                            CatchResult(req.route, req.items[i])),
              !.arrived = @ + 1]

\* analyzeWithGroq throws 'AI analysis failed' outside the callback's try:
\* the callback's promise rejects, Promise.all rejects and the route's
\* catch block answers
OnCompletionFails(req, i) ==
  Answered500([req EXCEPT !.recv = [@ EXCEPT ![i] = Failed]])

CompletionFails(r, i) ==
  /\ reqs[r].pc = "awaiting"
  /\ i \in 1..Len(reqs[r].items)
  /\ reqs[r].recv[i] = Pending
  /\ reqs' = [reqs EXCEPT ![r] = OnCompletionFails(reqs[r], i)]
  /\ lastOp' = NoOp
  /\ UNCHANGED <<users, job_seekers, job_listings, matches, lastWrite, employers, uploads>>

\* what the upsert can answer: it is not sent for an empty list
UpsertOutcomes(rows) == IF rows = <<>> THEN {"none"} ELSE {"ok", "error"}

\* a variant that throws the error of the upsert to the route's catch block
AfterUpsertThrows(req, kept, rows, outcome) ==
  IF outcome = "error" THEN [Answered500(req) EXCEPT !.upsert = outcome]
  ELSE [req EXCEPT !.pc = "done", !.status = 200,
                   !.body = MapPercent(SortDesc(kept)),
                   !.count = Len(MapPercent(SortDesc(kept))),
                   !.upsert = outcome,
                   !.written = IF outcome = "ok" THEN rows ELSE <<>>]

\* the request once the upsert has answered: its error is logged and the
\* response is the same
AfterUpsert(req, kept, rows, outcome) ==
  [req EXCEPT !.pc = "done", !.status = 200,
              !.body = MapPercent(SortDesc(kept)),
              !.count = Len(MapPercent(SortDesc(kept))),
              !.upsert = outcome,
              !.written = IF outcome = "ok" THEN rows ELSE <<>>]

\* the rest of a matching route once Promise.all has resolved: kept are the
\* results the route keeps and rows its matchesToInsert
Respond(r, kept, rows, outcome) ==
  /\ matches' = IF outcome = "ok" THEN Upsert(matches, rows) ELSE matches
  /\ lastWrite' = IF outcome = "ok" THEN Noted(lastWrite, rows) ELSE lastWrite
  /\ reqs' = [reqs EXCEPT ![r] = AfterUpsert(@, kept, rows, outcome)]
  /\ lastOp' = NoOp
  /\ UNCHANGED <<users, job_seekers, job_listings, employers, uploads>>

\* GET /api/matches/:seekerId from the filter to the response
RespondMatches(r, outcome) ==
  /\ reqs[r].pc = "awaiting"
  /\ reqs[r].route = "matches"
  /\ reqs[r].arrived = Len(reqs[r].items)
  /\ outcome \in UpsertOutcomes(GoodMatches(reqs[r].results))
  /\ Respond(r, GoodMatches(reqs[r].results),
             MatchesRows(reqs[r].target, GoodMatches(reqs[r].results)), outcome)

\* GET /api/candidates/:jobId from matchesToInsert to the response
RespondCandidates(r, outcome) ==
  /\ reqs[r].pc = "awaiting"
  /\ reqs[r].route = "candidates"
  /\ reqs[r].arrived = Len(reqs[r].items)
  /\ outcome \in UpsertOutcomes(reqs[r].results)
  /\ Respond(r, reqs[r].results,
             CandidateRows(reqs[r].target, reqs[r].results), outcome)

\* ------------------------------------------- registration and posting
\* bcrypt uses the first 72 bytes of the password and ignores the rest
BcryptInputLen == 72

\* passwords: none, one of five characters, one of six, and two of 73
\* characters that differ in the last character only
PwShort == <<"p", "w", "1", "2", "3">>
PwOk == <<"s", "e", "c", "r", "e", "t">>
PwLong == [k \in 1..BcryptInputLen + 1 |-> "a"]
PwLongOther == [k \in 1..BcryptInputLen + 1 |-> IF k = BcryptInputLen + 1 THEN "b" ELSE "a"]
Passwords == { <<>>, PwShort, PwOk }
AccountPasswords == { <<>>, PwShort, PwOk, PwLong }
LoginPasswords == { <<>>, PwShort, PwOk, PwLong, PwLongOther }

Emails == { "a@x", "b@x" }

\* the email of a login request: one of the emails, or none
LoginEmails == Emails \cup { "" }

\* what JSON.parse(answers) gives: an array, another value, or a SyntaxError
AnswerKinds == { "array", "object", "invalid" }

\* bcrypt.hash(password, 10): the digest of the bytes bcrypt reads, which is
\* not the password (the salt, which the digest carries, is left out)
BcryptHash(password) ==
  <<"$2b$10$">> \o SubSeq(password, 1, Min({Len(password), BcryptInputLen}))

\* a variant that compares the password with the stored column
BcryptComparePlain(password, hash) == password = hash

\* bcrypt.compare(password, hash)
BcryptCompare(password, hash) == BcryptHash(password) = hash

\* the row inserted into users
UserRow(id, email, hashedPassword, userType) ==
  [id |-> id, email |-> email, password_hash |-> hashedPassword, user_type |-> userType]

\* the row inserted into employers
EmployerRow(id, userId) == [id |-> id, user_id |-> userId]

\* the response of a request that was answered before any insert; file is
\* the name of the file multer stored for the request, 0 when there is none
Rejected(route, status, called, text, file, message) ==
  [route |-> route, status |-> status, called |-> called, text |-> text,
   inserted |-> FALSE, insertError |-> "none", level |-> "none",
   file |-> file, body |-> ErrorBody(message)]

\* multer's diskStorage: the file of the request is written to the uploads
\* directory under a name of its own before the handler runs
NewFile == Cardinality(uploads) + 1
Stored(hasFile) == IF hasFile THEN uploads \cup { NewFile } ELSE uploads
HasRoom(hasFile) == hasFile => Cardinality(uploads) < MaxUploads

\* the analysis of the registration response
ProfileAnalysis(profileData) ==
  [skills |-> OrEmpty(profileData.skills),
   experience_years |-> IF profileData.experience_years = Undefined THEN 0
                        ELSE profileData.experience_years,
   preferred_roles |-> OrEmpty(profileData.preferred_roles),
   behavioral_traits |-> OrEmpty(profileData.behavioral_traits)]

\* a variant of the checks of the registration route without the array check
SeekerInvalidNoArrayCheck(hasFile, password, answers) ==
  IF ~hasFile THEN "Resume file is required"
  ELSE IF Len(password) < MinPasswordLen THEN "Password must be at least 6 characters long"
  ELSE IF answers = "invalid" THEN "Invalid answers format"
  ELSE ""

\* the message of the 400 answer of POST /api/jobseeker/register, "" when
\* the request passes the checks, which the route makes in this order
SeekerInvalid(hasFile, password, answers) ==
  IF ~hasFile THEN "Resume file is required"
  ELSE IF Len(password) < MinPasswordLen THEN "Password must be at least 6 characters long"
  ELSE IF answers = "invalid" THEN "Invalid answers format"
  ELSE IF answers # "array" THEN "Answers must be an array"
  ELSE ""

\* POST /api/jobseeker/register: completion is the text analyzeWithGroq
\* returns, or Failed when it throws; userError and seekerError tell whether
\* the two inserts fail
RegisterSeeker(hasFile, email, password, answers, completion, userError, seekerError, active) ==
  /\ Len(users) < MaxSeekers
  /\ HasRoom(hasFile)
  /\ uploads' = Stored(hasFile)
  /\ UNCHANGED <<job_listings, matches, lastWrite, reqs, employers>>
  /\ LET file == IF hasFile THEN NewFile ELSE 0
     IN
     IF SeekerInvalid(hasFile, password, answers) # ""
     THEN /\ lastOp' = Rejected("register", 400, FALSE, Pending, file,
                                SeekerInvalid(hasFile, password, answers))
          /\ UNCHANGED <<users, job_seekers>>
     ELSE IF completion = Failed
     THEN /\ lastOp' = Rejected("register", 500, TRUE, Failed, file, "AI analysis failed")
          /\ UNCHANGED <<users, job_seekers>>
     ELSE IF userError
     THEN /\ lastOp' = [Rejected("register", 500, TRUE, completion, file, "users insert failed")
                          EXCEPT !.insertError = "users"]
          /\ UNCHANGED <<users, job_seekers>>
     ELSE /\ users' = Append(users, UserRow(Len(users) + 1, email,
                                            BcryptHash(password), "job_seeker"))
          /\ IF seekerError
             THEN /\ lastOp' = [Rejected("register", 500, TRUE, completion, file,
                                         "job_seekers insert failed")
                                  EXCEPT !.insertError = "job_seekers"]
                  /\ UNCHANGED job_seekers
             ELSE /\ job_seekers' = Append(job_seekers,
                       SeekerRow(Len(job_seekers) + 1, Len(users) + 1,
                                 ProfileData(completion), active))
                  /\ lastOp' = [route |-> "register", status |-> 200, called |-> TRUE,
                                text |-> completion, inserted |-> TRUE,
                                insertError |-> "none", level |-> "none",
                                file |-> file,
                                body |-> [success |-> TRUE, userId |-> Len(users) + 1,
                                          seekerId |-> Len(job_seekers) + 1,
                                          resumeUrl |-> file,
                                          analysis |-> ProfileAnalysis(ProfileData(completion))]]

\* POST /api/employer/register: userError and employerError tell whether the
\* two inserts fail
RegisterEmployer(email, password, userError, employerError) ==
  /\ Len(users) < MaxSeekers
  /\ UNCHANGED <<job_seekers, job_listings, matches, lastWrite, reqs, uploads>>
  /\ IF Len(password) < MinPasswordLen
     THEN /\ lastOp' = Rejected("employer", 400, FALSE, Pending, 0,
                                "Password must be at least 6 characters long")
          /\ UNCHANGED <<users, employers>>
     ELSE IF userError
     THEN /\ lastOp' = [Rejected("employer", 500, FALSE, Pending, 0, "users insert failed")
                          EXCEPT !.insertError = "users"]
          /\ UNCHANGED <<users, employers>>
     ELSE /\ users' = Append(users, UserRow(Len(users) + 1, email,
                                            BcryptHash(password), "employer"))
          /\ IF employerError
             THEN /\ lastOp' = [Rejected("employer", 500, FALSE, Pending, 0,
                                         "employers insert failed")
                                  EXCEPT !.insertError = "employers"]
                  /\ UNCHANGED employers
             ELSE /\ employers' = Append(employers,
                       EmployerRow(Len(employers) + 1, Len(users) + 1))
                  /\ lastOp' = [route |-> "employer", status |-> 200, called |-> FALSE,
                                text |-> Pending, inserted |-> TRUE,
                                insertError |-> "none", level |-> "none",
                                file |-> 0,
                                body |-> [success |-> TRUE, userId |-> Len(users) + 1,
                                          employerId |-> Len(employers) + 1]]

\* ------------------------------------------------------------------ login
\* the data of .single(): the row when exactly one row is selected, null
\* (with an error) otherwise
Null == [id |-> 0]
Single(rows) == IF Len(rows) = 1 THEN rows[1] ELSE Null

\* a variant that answers with the row of users as it was selected
LoginUserWhole(user) == user

\* the user part of the login response
LoginUser(user) == [id |-> user.id, email |-> user.email, userType |-> user.user_type]

\* profileData of the login response
LoginProfile(user) ==
  IF user.user_type = "job_seeker" THEN Single(Where(job_seekers, "user_id", user.id))
  ELSE IF user.user_type = "employer" THEN Single(Where(employers, "user_id", user.id))
  ELSE Null

\* POST /api/login
Login(email, password) ==
  /\ UNCHANGED <<users, job_seekers, job_listings, matches, lastWrite, reqs,
                 employers, uploads>>
  /\ LET user == Single(Where(users, "email", email))
     IN
     IF email = "" \/ password = <<>>
     THEN lastOp' = Rejected("login", 400, FALSE, Pending, 0,
                             "Email and password are required")
     ELSE IF user = Null
     THEN lastOp' = Rejected("login", 401, FALSE, Pending, 0, "Invalid email or password")
     ELSE IF ~ BcryptCompare(password, user.password_hash)
     THEN lastOp' = Rejected("login", 401, FALSE, Pending, 0, "Invalid email or password")
     ELSE lastOp' = [route |-> "login", status |-> 200, called |-> FALSE,
                     text |-> Pending, inserted |-> FALSE,
                     insertError |-> "none", level |-> "none", file |-> 0,
                     body |-> [success |-> TRUE, user |-> LoginUser(user),
                               profile |-> LoginProfile(user)]]

\* ---------------------------------------------------------------- posting
\* jobDescription.trim().length === 0
Blank(description) == \A k \in 1..Len(description) : description[k] = " "

\* the descriptions of the body, and the uploaded files by their text
Descriptions == { <<>>, <<" ">>, <<"d">> }
NoFile == <<"#nofile">>
DescriptionFiles == { NoFile, <<>>, <<"f">> }

\* the description check: the text of the file when one is uploaded,
\* otherwise the description of the body, must not be blank
Postable(description, file) ==
  ~ Blank(IF file # NoFile THEN file ELSE description)

\* POST /api/job/post/:employerId
PostJob(employerId, description, file, completion, insertError) ==
  /\ Len(job_listings) < MaxJobs
  /\ HasRoom(file # NoFile)
  /\ uploads' = Stored(file # NoFile)
  /\ UNCHANGED <<users, job_seekers, matches, lastWrite, reqs, employers>>
  /\ LET stored == IF file # NoFile THEN NewFile ELSE 0
     IN
     IF ~ Postable(description, file)
     THEN /\ lastOp' = Rejected("post", 400, FALSE, Pending, stored,
                                "Job description is required")
          /\ UNCHANGED job_listings
     ELSE IF completion = Failed
     THEN /\ lastOp' = Rejected("post", 500, TRUE, Failed, stored, "AI analysis failed")
          /\ UNCHANGED job_listings
     ELSE IF insertError
     THEN /\ lastOp' = [Rejected("post", 500, TRUE, completion, stored,
                                 "job_listings insert failed")
                          EXCEPT !.insertError = "job_listings"]
          /\ UNCHANGED job_listings
     ELSE /\ job_listings' = Append(job_listings,
               JobRow(Len(job_listings) + 1, employerId,
                      IF file # NoFile THEN file ELSE description,
                      JobData(completion)))
          /\ lastOp' = [route |-> "post", status |-> 200, called |-> TRUE,
                        text |-> completion, inserted |-> TRUE,
                        insertError |-> "none",
                        level |-> IF JobData(completion).experience_level = "#undefined"
                                  THEN "mid"
                                  ELSE JobData(completion).experience_level,
                        file |-> stored,
                        body |-> [success |-> TRUE, jobId |-> Len(job_listings) + 1,
                                  jobDescriptionUrl |-> stored]]

\* JSON.stringify(x): undefined stays undefined
Stringify(x) == IF x = Missing THEN Missing ELSE <<"json">> \o x

\* POST /api/job/post of the earlier version of the server: the description
\* is the field of the JSON body and is not checked
LegacyPostJob(employerId, description, completion, insertError) ==
  /\ Len(job_listings) < MaxJobs
  /\ UNCHANGED <<users, job_seekers, matches, lastWrite, reqs, employers, uploads>>
  /\ IF completion = Failed
     THEN /\ lastOp' = Rejected("legacy_post", 500, TRUE, Failed, 0, "AI analysis failed")
          /\ UNCHANGED job_listings
     ELSE IF insertError
     THEN /\ lastOp' = [Rejected("legacy_post", 500, TRUE, completion, 0,
                                 "job_listings insert failed")
                          EXCEPT !.insertError = "job_listings"]
          /\ UNCHANGED job_listings
     ELSE /\ job_listings' = Append(job_listings,
               [JobRow(Len(job_listings) + 1, employerId, description, JobData(completion))
                  EXCEPT !.required_skills = Stringify(@),
                         !.behavioral_traits = Stringify(@)])
          /\ lastOp' = [route |-> "legacy_post", status |-> 200, called |-> TRUE,
                        text |-> completion, inserted |-> TRUE,
                        insertError |-> "none",
                        level |-> IF JobData(completion).experience_level = "#undefined"
                                  THEN "mid"
                                  ELSE JobData(completion).experience_level,
                        file |-> 0,
                        body |-> [success |-> TRUE, jobId |-> Len(job_listings) + 1]]

\* ------------------------------------- specification of the matching routes
\* the tables the matching routes start from: rows that registrations and
\* postings have inserted (Spec reaches such rows), every seeker active or not
SeekerTables ==
  UNION { { [k \in 1..n |-> SeekerRow(k, k, DefaultProfileData, act[k])] : act \in [1..n -> BOOLEAN] }
          : n \in 1..MaxSeekers }

JobTables == { [k \in 1..n |-> JobRow(k, 1, <<"d">>, DefaultJobData)] : n \in 1..MaxJobs }

InitMatch ==
  /\ job_seekers \in SeekerTables
  /\ job_listings \in JobTables
  /\ users = [k \in 1..Len(job_seekers) |-> UserRow(k, IF k = 1 THEN "a@x" ELSE "b@x", BcryptHash(PwOk), "job_seeker")]
  /\ matches = <<>>
  /\ lastWrite = [p \in SeekerIds \X JobIds |-> NoRow]
  /\ reqs = [r \in ReqIds |-> IdleReq]
  /\ lastOp = NoOp
  /\ employers = <<>>
  /\ uploads = 1..Len(job_seekers)

NextMatch ==
  \/ \E r \in ReqIds, seekerId \in SeekerIds : StartMatches(r, seekerId)
  \/ \E r \in ReqIds, jobId \in JobIds : StartCandidates(r, jobId)
  \/ \E r \in ReqIds, i \in 1..MaxJobs + MaxSeekers, text \in MatchTexts :
       CompletionReturns(r, i, text)
  \/ \E r \in ReqIds, i \in 1..MaxJobs + MaxSeekers : CompletionFails(r, i)
  \/ \E r \in ReqIds, outcome \in {"none", "ok", "error"} : RespondMatches(r, outcome)
  \/ \E r \in ReqIds, outcome \in {"none", "ok", "error"} : RespondCandidates(r, outcome)

SpecMatch == InitMatch /\ [][NextMatch]_vars

\* ------------------------------- specification of registration and posting
Init ==
  /\ users = <<>>
  /\ job_seekers = <<>>
  /\ job_listings = <<>>
  /\ matches = <<>>
  /\ lastWrite = [p \in SeekerIds \X JobIds |-> NoRow]
  /\ reqs = [r \in ReqIds |-> IdleReq]
  /\ lastOp = NoOp
  /\ employers = <<>>
  /\ uploads = {}

\* every request of the registration route and of the two posting routes; an
\* input that the request does not get to read is not varied
Next ==
  \/ \E hasFile \in BOOLEAN, password \in Passwords, answers \in AnswerKinds :
       \E completion \in IF SeekerInvalid(hasFile, password, answers) = ""
                          THEN ProfileTexts \cup {Failed} ELSE {Failed} :
         \E email \in IF completion = Failed THEN {"a@x"} ELSE Emails,
            userError \in IF completion = Failed THEN {FALSE} ELSE BOOLEAN :
           \E seekerError \in IF completion = Failed \/ userError THEN {FALSE} ELSE BOOLEAN :
             \E active \in IF completion = Failed \/ userError \/ seekerError
                            THEN {TRUE} ELSE BOOLEAN :
               RegisterSeeker(hasFile, email, password, answers, completion,
                              userError, seekerError, active)
  \/ \E description \in Descriptions, file \in DescriptionFiles :
       \E completion \in IF Postable(description, file)
                          THEN JobTexts \cup {Failed} ELSE {Failed} :
         \E insertError \in IF completion = Failed THEN {FALSE} ELSE BOOLEAN :
           PostJob(1, description, file, completion, insertError)
  \/ \E description \in Descriptions, completion \in JobTexts \cup {Failed} :
       \E insertError \in IF completion = Failed THEN {FALSE} ELSE BOOLEAN :
         LegacyPostJob(1, description, completion, insertError)

Spec == Init /\ [][Next]_vars

\* ------------------------------------------- specification of the accounts
\* the completion texts of the registrations of this specification
AccountTexts == { <<"w">>, <<"w", "{", "p3", "}">> }

\* every request of the two registration routes and of the login route
NextAccounts ==
  \/ \E hasFile \in BOOLEAN, password \in AccountPasswords, answers \in AnswerKinds :
       \E completion \in IF SeekerInvalid(hasFile, password, answers) = ""
                          THEN AccountTexts \cup {Failed} ELSE {Failed} :
         \E email \in IF completion = Failed THEN {"a@x"} ELSE Emails,
            userError \in IF completion = Failed THEN {FALSE} ELSE BOOLEAN :
           \E seekerError \in IF completion = Failed \/ userError THEN {FALSE} ELSE BOOLEAN :
             \E active \in IF completion = Failed \/ userError \/ seekerError
                            THEN {TRUE} ELSE BOOLEAN :
               RegisterSeeker(hasFile, email, password, answers, completion,
                              userError, seekerError, active)
  \/ \E password \in AccountPasswords :
       \E email \in IF Len(password) < MinPasswordLen THEN {"a@x"} ELSE Emails,
          userError \in IF Len(password) < MinPasswordLen THEN {FALSE} ELSE BOOLEAN :
         \E employerError \in IF Len(password) < MinPasswordLen \/ userError
                               THEN {FALSE} ELSE BOOLEAN :
           RegisterEmployer(email, password, userError, employerError)
  \/ \E email \in LoginEmails, password \in LoginPasswords : Login(email, password)

SpecAccounts == Init /\ [][NextAccounts]_vars

\* ------------------------------------------------------------- properties
\* the i-th completion call of request r has returned a text
Arrived(r, i) ==
  /\ reqs[r].pc # "idle"
  /\ i \in 1..Len(reqs[r].items)
  /\ reqs[r].recv[i] \notin {Pending, Failed}

\* request r has been answered with success: true
Answered(r) == reqs[r].pc = "done" /\ reqs[r].status = 200

\* the rows of matches of one (seeker, job) pair
RowsOf(p) ==
  SelectSeq(matches, LAMBDA row : row.job_seeker_id = p[1] /\ row.job_listing_id = p[2])

\* C1: whatever requests to the two matching routes have run and however
\* they interleaved, matches holds at most one row per (job_seeker_id,
\* job_listing_id) pair, and that row is the one the latest upsert for the
\* pair wrote.
C1_OneRowPerPairLatestWrite ==
  \A p \in SeekerIds \X JobIds :
    RowsOf(p) = IF lastWrite[p] = NoRow THEN <<>> ELSE <<lastWrite[p]>>

\* C1 witness: the two routes have both written the same pair with
\* different values, and the table holds the one row of the later write.
C1_Witness ==
  \E r1 \in ReqIds, r2 \in ReqIds :
    /\ reqs[r1].route = "matches" /\ reqs[r2].route = "candidates"
    /\ \E k1 \in 1..Len(reqs[r1].written), k2 \in 1..Len(reqs[r2].written) :
         /\ SameKey(reqs[r1].written[k1], reqs[r2].written[k2])
         /\ reqs[r1].written[k1] # reqs[r2].written[k2]
         /\ RowsOf(<<reqs[r1].written[k1].job_seeker_id,
                     reqs[r1].written[k1].job_listing_id>>) = <<reqs[r1].written[k1]>>

\* the columns of a row of matchesToInsert (match_date, the time of the
\* request, is left out of the model)
MatchColumns ==
  {"job_seeker_id", "job_listing_id", "match_score", "technical_fit",
   "behavioral_fit", "status"}

\* the i-th pair of request r is the pair of the row
PairOfRow(r, i, row) ==
  IF reqs[r].route = "matches"
  THEN row.job_seeker_id = reqs[r].target /\ row.job_listing_id = reqs[r].items[i]
  ELSE row.job_seeker_id = reqs[r].items[i] /\ row.job_listing_id = reqs[r].target

\* C2 as claimed: every row a matching route writes carries the score and
\* the explanation of its pair.
C2_RowsCarryScoreAndExplanation ==
  \A r \in ReqIds : \A k \in 1..Len(reqs[r].written) :
    /\ "explanation" \in DOMAIN reqs[r].written[k]
    /\ \E i \in 1..Len(reqs[r].items) :
         /\ PairOfRow(r, i, reqs[r].written[k])
         /\ reqs[r].written[k].match_score = reqs[r].results[i].matchScore
         /\ reqs[r].written[k].explanation = reqs[r].results[i].explanation

\* C2 amended: every row a matching route writes carries match_score,
\* technical_fit and behavioral_fit as the route scored its pair (from the
\* completion text, or the 0.70 fallback) and status pending, and has no
\* explanation column; the explanation is in the response only.
C2_RowsCarryScoresNotExplanation ==
  \A r \in ReqIds : \A k \in 1..Len(reqs[r].written) :
    /\ DOMAIN reqs[r].written[k] = MatchColumns
    /\ reqs[r].written[k].status = "pending"
    /\ \E i \in 1..Len(reqs[r].items) :
         /\ Arrived(r, i)
         /\ PairOfRow(r, i, reqs[r].written[k])
         /\ LET res == ScorePair(reqs[r].route, reqs[r].items[i], reqs[r].recv[i])
            IN /\ reqs[r].written[k].match_score = res.matchScore
               /\ reqs[r].written[k].technical_fit = res.technicalFit
               /\ reqs[r].written[k].behavioral_fit = res.behavioralFit
               /\ \E j \in 1..Len(reqs[r].body) :
                    /\ reqs[r].body[j].id = reqs[r].items[i]
                    /\ reqs[r].body[j].explanation = res.explanation

\* C2 witness: a row was written for a pair whose explanation came from the
\* completion text, and the two fits of the row differ.
C2_Witness ==
  \E r \in ReqIds : \E k \in 1..Len(reqs[r].written) :
    /\ reqs[r].route = "matches"
    /\ reqs[r].written[k].technical_fit # reqs[r].written[k].behavioral_fit
    /\ \E j \in 1..Len(reqs[r].body) :
         /\ reqs[r].body[j].id = reqs[r].written[k].job_listing_id
         /\ reqs[r].body[j].explanation = "e850"

\* the three numbers of the completion text of a parsed answer are numbers
Numeric(text) ==
  /\ MatchDataOf(JsonMatch(text)).match_score # Undefined
  /\ MatchDataOf(JsonMatch(text)).technical_fit # Undefined
  /\ MatchDataOf(JsonMatch(text)).behavioral_fit # Undefined

\* C4: in both matching routes a pair whose completion text yields no
\* parseable JSON object gets matchScore = technicalFit = behavioralFit =
\* 0.70 (70% in the list of candidates), and a pair whose text parses keeps
\* the rounded numbers of its own text.
C4_UnparseablePairGetsDefaults ==
  \A r \in ReqIds : \A i \in 1..Len(reqs[r].items) :
    Arrived(r, i) =>
      LET res == reqs[r].results[i]
          text == reqs[r].recv[i]
      IN /\ res.id = reqs[r].items[i]
         /\ Unparseable(text) =>
              /\ res.matchScore = Round2(DefaultScore)
              /\ res.technicalFit = Round2(DefaultScore)
              /\ res.behavioralFit = Round2(DefaultScore)
              /\ Answered(r) /\ reqs[r].route = "candidates" =>
                   \E j \in 1..Len(reqs[r].body) :
                     /\ reqs[r].body[j].id = res.id
                     /\ reqs[r].body[j].matchScore = Percent(Round2(DefaultScore))
         /\ ~ Unparseable(text) /\ Numeric(text) =>
              /\ res.matchScore = Round2(MatchDataOf(JsonMatch(text)).match_score)
              /\ res.technicalFit = Round2(MatchDataOf(JsonMatch(text)).technical_fit)
              /\ res.behavioralFit = Round2(MatchDataOf(JsonMatch(text)).behavioral_fit)

\* C4 witness: an answered candidates request of two pairs: the first pair's
\* text was not valid JSON and it holds the default 0.70, the second pair's
\* text parsed and it holds its own score 0.85.
C4_Witness ==
  \E r \in ReqIds :
    /\ Answered(r)
    /\ reqs[r].route = "candidates"
    /\ Len(reqs[r].items) = 2
    /\ ParseOutcome(reqs[r].recv[1]) = "throws"
    /\ reqs[r].results[1].matchScore = 70
    /\ ParseOutcome(reqs[r].recv[2]) = "parsed"
    /\ reqs[r].results[2].matchScore = 85

\* C5 as claimed: a pair whose completion call failed is given the default
\* value and the request still returns its result.
C5_FailedCallGetsDefault ==
  \A r \in ReqIds : \A i \in 1..Len(reqs[r].items) :
    reqs[r].recv[i] = Failed =>
      /\ reqs[r].results[i].matchScore = Round2(DefaultScore)
      /\ reqs[r].pc = "done" => reqs[r].status = 200

\* C5 amended: when analyzeWithGroq throws for one pair of the fan-out, the
\* route's catch block answers the whole request with status 500: no pair is
\* given a default for it, no list is returned and the request writes no row.
C5_FailedCallFailsRequest ==
  \A r \in ReqIds : \A i \in 1..Len(reqs[r].items) :
    reqs[r].recv[i] = Failed =>
      /\ reqs[r].pc = "done"
      /\ reqs[r].status = 500
      /\ reqs[r].results[i] = NoResult
      /\ reqs[r].body = <<>>
      /\ reqs[r].written = <<>>

\* C5 witness: one pair of the request had been scored from its text when
\* the call of the other pair failed.
C5_Witness ==
  \E r \in ReqIds :
    /\ Len(reqs[r].items) = 2
    /\ Arrived(r, 1)
    /\ reqs[r].results[1].matchScore = 85
    /\ reqs[r].recv[2] = Failed
    /\ reqs[r].status = 500

\* the jobs of request r whose score, rounded to two decimals, reaches 0.75
AtThreshold(r) ==
  { reqs[r].items[i] : i \in { j \in 1..Len(reqs[r].items) :
      ScorePair("matches", reqs[r].items[j], reqs[r].recv[j]).matchScore >= Threshold } }

BodyIds(r) == { reqs[r].body[k].id : k \in 1..Len(reqs[r].body) }
WrittenJobs(r) == { reqs[r].written[k].job_listing_id : k \in 1..Len(reqs[r].written) }

\* C6 as claimed: an answered GET /api/matches/:seekerId returns and persists
\* exactly the jobs at or above the threshold, and matchCount is their number.
C6_ReturnsAndPersistsThreshold ==
  \A r \in ReqIds :
    Answered(r) /\ reqs[r].route = "matches" =>
      /\ BodyIds(r) = AtThreshold(r)
      /\ WrittenJobs(r) = AtThreshold(r)
      /\ reqs[r].count = Len(reqs[r].body)

\* C6 amended: an answered GET /api/matches/:seekerId returns exactly the
\* active jobs whose score, rounded to two decimals, is at least 0.75, each
\* once, and matchCount is their number; it writes exactly these jobs to
\* matches when the upsert succeeds and nothing when the upsert returns an
\* error; a pair that fell back to 0.70 is neither returned nor written.
C6_ReturnsThresholdPersistsOnSuccess ==
  \A r \in ReqIds :
    Answered(r) /\ reqs[r].route = "matches" =>
      /\ BodyIds(r) = AtThreshold(r)
      /\ Len(reqs[r].body) = Cardinality(AtThreshold(r))
      /\ reqs[r].count = Len(reqs[r].body)
      /\ WrittenJobs(r) = IF reqs[r].upsert = "error" THEN {} ELSE AtThreshold(r)
      /\ Len(reqs[r].written) = Cardinality(WrittenJobs(r))
      /\ \A k \in 1..Len(reqs[r].written) :
           reqs[r].written[k].job_seeker_id = reqs[r].target
      /\ \A i \in 1..Len(reqs[r].items) :
           reqs[r].results[i].matchScore < Threshold =>
             reqs[r].items[i] \notin BodyIds(r) \cup WrittenJobs(r)

\* C6 witness: a job whose text says 0.746 (0.75 after rounding) is returned
\* and written, and a job that fell back to 0.70 is not.
C6_Witness ==
  \E r \in ReqIds :
    /\ Answered(r) /\ reqs[r].route = "matches"
    /\ Len(reqs[r].items) = 2
    /\ reqs[r].recv[1] = <<"{", "m746", "}">>
    /\ Unparseable(reqs[r].recv[2])
    /\ BodyIds(r) = {reqs[r].items[1]}
    /\ WrittenJobs(r) = {reqs[r].items[1]}
    /\ reqs[r].count = 1

\* the results a route keeps: those at the threshold, or all of them
Kept(r) ==
  IF reqs[r].route = "matches" THEN GoodMatches(reqs[r].results) ELSE reqs[r].results

\* what the earlier version of GET /api/matches/:seekerId makes of the
\* answers request r received
LegacyMatches(r) ==
  [i \in 1..Len(reqs[r].items) |-> LegacyScorePair(reqs[r].items[i], reqs[r].recv[i])]

\* C7: the list a matching route returns is in non-increasing order of the
\* numeric match score, and is a permutation of the entries that were kept;
\* so is the list the earlier version of the route, whose scores are strings,
\* returns for the same answers.
C7_SortedPermutation ==
  \A r \in ReqIds :
    Answered(r) =>
      /\ reqs[r].route = "matches" =>
           LET list == LegacySortedMatches(LegacyMatches(r))
               kept == LegacyKept(LegacyMatches(r))
           IN /\ \A k \in 1..Len(list) - 1 :
                   /\ ToNumber(list[k].matchScore) # NaN
                   /\ ToNumber(list[k].matchScore) >= ToNumber(list[k + 1].matchScore)
              /\ Len(list) = Len(kept)
              /\ \A k \in 1..Len(kept) : \E j \in 1..Len(list) : list[j] = kept[k]
      /\ \A k \in 1..Len(reqs[r].body) - 1 :
           reqs[r].body[k].matchScore[1] >= reqs[r].body[k + 1].matchScore[1]
      /\ Len(reqs[r].body) = Len(Kept(r))
      /\ \A k \in 1..Len(Kept(r)) :
           Cardinality({ j \in 1..Len(reqs[r].body) : reqs[r].body[j] = ToPercent(Kept(r)[k]) })
             = Cardinality({ j \in 1..Len(Kept(r)) : Kept(r)[j] = Kept(r)[k] })

\* C7 witness: the second of two kept entries had the higher score and is
\* returned first.
C7_Witness ==
  \E r \in ReqIds :
    /\ Answered(r)
    /\ Len(Kept(r)) = 2
    /\ Kept(r)[1].matchScore < Kept(r)[2].matchScore
    /\ reqs[r].body[1].id = Kept(r)[2].id
    /\ reqs[r].body[2].id = Kept(r)[1].id

\* two requests were given the same table rows and the same outcome of every
\* completion call that either of them saw finish
SameAnswers(a, b) ==
  /\ a.route = b.route /\ a.target = b.target /\ a.items = b.items
  /\ \A i \in 1..Len(a.items) :
       a.recv[i] = b.recv[i] \/ a.recv[i] = Pending \/ b.recv[i] = Pending

\* C9: the body of an answered request of a matching route is a function of
\* the fetched rows and of the completion answer per pair; two finished
\* requests with the same fetched rows and the same answer per pair have the
\* same status and the same response body, and (the upsert answering alike)
\* have written the same rows, in whatever order their calls finished.
C9_OrderOfCompletionsIrrelevant ==
  \A r1 \in ReqIds, r2 \in ReqIds :
    reqs[r1].pc = "done" /\ reqs[r2].pc = "done" /\ SameAnswers(reqs[r1], reqs[r2]) =>
      /\ Answered(r1) =>
           reqs[r1].body = MapPercent(SortDesc(
             IF reqs[r1].route = "matches"
             THEN GoodMatches([i \in 1..Len(reqs[r1].items) |->
                    ScorePair("matches", reqs[r1].items[i], reqs[r1].recv[i])])
             ELSE [i \in 1..Len(reqs[r1].items) |->
                    ScorePair("candidates", reqs[r1].items[i], reqs[r1].recv[i])]))
      /\ reqs[r1].status = reqs[r2].status
      /\ reqs[r1].body = reqs[r2].body
      /\ reqs[r1].count = reqs[r2].count
      /\ reqs[r1].upsert = reqs[r2].upsert => reqs[r1].written = reqs[r2].written

\* C9 witness: two answered requests with the same answers for two pairs of
\* equal score, where only the position of a result in Promise.all's array
\* decides the order of the list.
C9_Witness ==
  \E r1 \in ReqIds, r2 \in ReqIds :
    /\ r1 # r2
    /\ Answered(r1) /\ Answered(r2)
    /\ SameAnswers(reqs[r1], reqs[r2])
    /\ Len(reqs[r1].body) = 2
    /\ reqs[r1].body[1].matchScore = reqs[r1].body[2].matchScore
    /\ reqs[r1].body = reqs[r2].body
    /\ reqs[r1].written = reqs[r2].written /\ reqs[r1].written # <<>>

\* the rows a request fetches for the fan-out
Fetched(r) ==
  IF reqs[r].route = "matches" THEN Ids(Where(job_listings, "is_active", TRUE))
  ELSE Ids(Where(job_seekers, "is_active", TRUE))

\* C10: a request to a matching route that got past its two reads has issued
\* exactly one completion call per fetched row (every active job listing, or
\* every fetched job seeker), whether or not matches already has a row for
\* the pair.
C10_OneCallPerFetchedRow ==
  \A r \in ReqIds :
    reqs[r].pc = "awaiting" \/ Answered(r) \/ reqs[r].items # <<>> =>
      /\ reqs[r].items = Fetched(r)
      /\ reqs[r].calls = reqs[r].items

\* C10 witness: a request issued a call for every fetched row although some
\* of their pairs already had a row in matches.
C10_Witness ==
  \E r \in ReqIds :
    /\ reqs[r].had # <<>>
    /\ reqs[r].calls = reqs[r].items
    /\ Len(reqs[r].calls) = 2

\* the row the request just answered has inserted
InsertedRow ==
  IF lastOp.route = "register" THEN job_seekers[Len(job_seekers)]
  ELSE job_listings[Len(job_listings)]

\* the inserted row holds the route's fixed defaults (and the response of a
\* posting the default experience_level)
HoldsDefaults ==
  IF lastOp.route = "register"
  THEN /\ InsertedRow.skills = <<>>
       /\ InsertedRow.experience_years = 0
       /\ InsertedRow.preferred_roles = <<>>
       /\ InsertedRow.behavioral_traits = <<>>
  ELSE /\ InsertedRow.required_skills = <<>>
       /\ InsertedRow.behavioral_traits = <<>>
       /\ lastOp.level = "mid"

\* C3: in the registration route and in the job posting route a completion
\* text from which no JSON object can be parsed makes the route use its fixed
\* defaults: the row is inserted with them and the answer is success; an
\* error response after such a text comes from a failed insert only.
C3_ParseFailureFallsBackToDefaults ==
  lastOp.route \in {"register", "post"} /\ lastOp.called
  /\ lastOp.text # Failed /\ Unparseable(lastOp.text) =>
    /\ lastOp.insertError = "none" =>
         lastOp.status = 200 /\ lastOp.inserted /\ HoldsDefaults
    /\ lastOp.status # 200 => lastOp.insertError # "none"

\* C3 witness: a registration whose completion text has braces around text
\* that is not JSON was answered with success and its row has the defaults.
C3_Witness ==
  /\ lastOp.route = "register"
  /\ lastOp.status = 200
  /\ ParseOutcome(lastOp.text) = "throws"
  /\ HoldsDefaults

\* the position of the "}" that closes the first brace-delimited substring
FirstClose(text) == Min({ j \in CloseAt(text) : j > Min(OpenAt(text)) })

\* the text begins its first brace-delimited substring with a complete object
HasFirstObject(text) ==
  /\ OpenAt(text) # {}
  /\ { j \in CloseAt(text) : j > Min(OpenAt(text)) } # {}
  /\ JsonValid(SubSeq(text, Min(OpenAt(text)), FirstClose(text)))

FirstObject(text) == SubSeq(text, Min(OpenAt(text)), FirstClose(text))

\* the inserted row holds the values of the object of the span
HoldsObject(span) ==
  IF lastOp.route = "register"
  THEN InsertedRow = SeekerRow(InsertedRow.id, InsertedRow.user_id,
                               ProfileDataOf(span), InsertedRow.is_active)
  ELSE InsertedRow = JobRow(InsertedRow.id, InsertedRow.employer_id,
                            InsertedRow.description, JobDataOf(span))

\* C8 as claimed: when the completion text holds a complete JSON object,
\* whatever follows it, that first object is the one extracted and used.
C8_FirstObjectIsUsed ==
  lastOp.route \in {"register", "post"} /\ lastOp.status = 200
  /\ HasFirstObject(lastOp.text) =>
    HoldsObject(FirstObject(lastOp.text))

\* C8 amended: the substring parsed out of a completion text runs from its
\* first "{" to its last "}". A complete first object is extracted and used
\* when no "}" follows it; when the text after it holds another "}" (a second
\* object, say) the substring is not valid JSON and the fixed defaults are
\* used instead.
C8_FirstToLastBrace ==
  lastOp.route \in {"register", "post"} /\ lastOp.status = 200
  /\ HasFirstObject(lastOp.text) =>
    IF \E j \in CloseAt(lastOp.text) : j > FirstClose(lastOp.text)
    THEN HoldsDefaults
    ELSE HoldsObject(FirstObject(lastOp.text))

\* C8 witness: a text with a complete object and a later "}" was answered
\* with the defaults, not with the object.
C8_Witness ==
  /\ lastOp.route = "register"
  /\ lastOp.status = 200
  /\ lastOp.text = <<"{", "p3", "}", "w", "}">>
  /\ HoldsDefaults
  /\ ~ HoldsObject(FirstObject(lastOp.text))

\* ------------------------------------------------- accounts and uploads
\* the step leaves the three tables of the accounts as they are and its
\* request was answered with 400 before any completion call
AnsweredInvalid ==
  /\ lastOp'.status = 400
  /\ ~ lastOp'.called
  /\ users' = users
  /\ job_seekers' = job_seekers
  /\ employers' = employers

\* C11: a registration request that fails validation (no resume file, a
\* password that is missing or shorter than 6 characters, answers that are
\* not a JSON array; for an employer a password that is missing or shorter
\* than 6 characters) is answered with status 400, inserts no row in users,
\* job_seekers or employers and issues no completion call.
C11_InvalidRegistrationChangesNothing ==
  [][ /\ \A hasFile \in BOOLEAN, password \in AccountPasswords, answers \in AnswerKinds :
           /\ ~hasFile \/ Len(password) < 6 \/ answers # "array"
           /\ RegisterSeeker(hasFile, "a@x", password, answers, Failed, FALSE, FALSE, TRUE)
           => AnsweredInvalid
      /\ \A password \in AccountPasswords :
           /\ Len(password) < 6
           /\ RegisterEmployer("a@x", password, FALSE, FALSE)
           => AnsweredInvalid ]_vars

\* C11 witness: with one user registered, a registration with a resume and a
\* good password whose answers are not an array was answered with 400.
C11_Witness ==
  /\ lastOp.route = "register"
  /\ lastOp.status = 400
  /\ lastOp.body.error = "Answers must be an array"
  /\ lastOp.file # 0
  /\ Len(users) = 1
  /\ Len(job_seekers) = 1

\* the one user who holds the email, when exactly one does, and who was
\* registered with success: the profile row of the registration is there
RegisteredAlone(email) ==
  /\ Len(Where(users, "email", email)) = 1
  /\ LoginProfile(Where(users, "email", email)[1]) # Null

UserOf(email) == Where(users, "email", email)[1]

\* the user was registered with password p: the route stored bcrypt.hash(p)
RegisteredWith(email, p) ==
  /\ Len(p) >= 6
  /\ UserOf(email).password_hash = BcryptHash(p)

\* the step answered with success and the id and the userType of the user
LoggedIn(email) ==
  /\ lastOp'.status = 200
  /\ lastOp'.body.success
  /\ lastOp'.body.user.id = UserOf(email).id
  /\ lastOp'.body.user.userType = UserOf(email).user_type

\* the bytes of a password that bcrypt reads
BcryptRead(password) == SubSeq(password, 1, Min({Len(password), 72}))

\* C12 as claimed: after a successful registration with email e, held by no
\* other user, and password p, a login with (e, p) answers success with the
\* user's id and userType and a login with (e, q), q different from p,
\* answers 401.
C12_LoginRoundTrip ==
  [][ \A email \in Emails, p \in AccountPasswords, q \in LoginPasswords :
        RegisteredAlone(email) /\ RegisteredWith(email, p) /\ Login(email, q) =>
          /\ q = p => LoggedIn(email)
          /\ q # p => lastOp'.status = 401 ]_vars

\* C12 amended: a login with (e, p) answers success with the user's id and
\* userType; a login with (e, q) answers 401 for every non-empty q that
\* differs from p within the first 72 bytes, 400 for an empty or missing q,
\* and success for a q that differs from p after the first 72 bytes only.
C12_LoginRoundTripWithin72Bytes ==
  [][ \A email \in Emails, p \in AccountPasswords, q \in LoginPasswords :
        RegisteredAlone(email) /\ RegisteredWith(email, p) /\ Login(email, q) =>
          /\ q = p => LoggedIn(email)
          /\ q # <<>> /\ BcryptRead(q) # BcryptRead(p) => lastOp'.status = 401
          /\ q = <<>> => lastOp'.status = 400
          /\ q # <<>> /\ BcryptRead(q) = BcryptRead(p) => LoggedIn(email) ]_vars

\* C12 witness: of two users with different emails, the second, a job
\* seeker with a profile row, has logged in.
C12_Witness ==
  /\ lastOp.route = "login"
  /\ lastOp.status = 200
  /\ Len(users) = 2
  /\ users[1].email # users[2].email
  /\ lastOp.body.user.id = 2
  /\ lastOp.body.user.userType = "job_seeker"
  /\ lastOp.body.profile # Null

\* the passwords the requests carry and their digests
Secrets ==
  (LoginPasswords \ { <<>> }) \cup { BcryptHash(p) : p \in LoginPasswords \ { <<>> } }

\* the object has no field of a password or of a digest
NoSecretField(object) ==
  DOMAIN object \cap { "password", "password_hash", "hashedPassword" } = {}

\* the lists of a profile are neither a password nor a digest
NoSecretList(profile) ==
  \A f \in DOMAIN profile \cap { "skills", "preferred_roles", "behavioral_traits" } :
    profile[f] \notin Secrets

\* C13: no response of a registration or of a login contains a password or a
\* password hash: neither the body, nor the user and the profile of a
\* successful login, nor the analysis of a successful registration has a
\* field of the password or of its digest, or a list that is one of them.
C13_NoPasswordInResponses ==
  lastOp.route \in { "login", "register", "employer" } =>
    /\ NoSecretField(lastOp.body)
    /\ lastOp.route = "login" /\ lastOp.status = 200 =>
         /\ NoSecretField(lastOp.body.user)
         /\ DOMAIN lastOp.body.user \subseteq { "id", "email", "fullName", "userType", "createdAt" }
         /\ NoSecretField(lastOp.body.profile)
         /\ NoSecretList(lastOp.body.profile)
    /\ lastOp.route = "register" /\ lastOp.status = 200 =>
         /\ NoSecretField(lastOp.body.analysis)
         /\ NoSecretList(lastOp.body.analysis)

\* C13 witness: an employer whose row of users holds the digest of the
\* password has logged in and the response carries the employer's profile.
C13_Witness ==
  /\ lastOp.route = "login"
  /\ lastOp.status = 200
  /\ lastOp.body.user.userType = "employer"
  /\ lastOp.body.profile # Null
  /\ \E k \in 1..Len(users) :
       /\ users[k].id = lastOp.body.user.id
       /\ users[k].password_hash = BcryptHash(PwOk)

\* the ids of the job seekers of the table, and of those that are active
AllSeekerIds == { job_seekers[k].id : k \in 1..Len(job_seekers) }
ActiveSeekerIds == { job_seekers[k].id : k \in { j \in 1..Len(job_seekers) : job_seekers[j].is_active } }
WrittenSeekers(r) == { reqs[r].written[k].job_seeker_id : k \in 1..Len(reqs[r].written) }

C15_UpsertErrorDoesNotFail ==
  /\ \A r \in ReqIds :
       reqs[r].pc = "done" /\ reqs[r].upsert = "error" =>
         /\ reqs[r].status = 200
         /\ reqs[r].body = MapPercent(SortDesc(Kept(r)))
         /\ reqs[r].count = Len(reqs[r].body)
         /\ reqs[r].body # <<>>
  /\ \A r1 \in ReqIds, r2 \in ReqIds :
       /\ reqs[r1].pc = "done" /\ reqs[r2].pc = "done"
       /\ SameAnswers(reqs[r1], reqs[r2])
       /\ reqs[r1].upsert = "error" /\ reqs[r2].upsert = "ok"
       => /\ reqs[r1].status = reqs[r2].status
          /\ reqs[r1].body = reqs[r2].body
          /\ reqs[r1].count = reqs[r2].count

\* C15 witness: two matches requests with the same answers for two jobs, the
\* upsert of one returned an error and that of the other succeeded, and both
\* were answered with the same list of two matches.
C15_Witness ==
  \E r1 \in ReqIds, r2 \in ReqIds :
    /\ Answered(r1) /\ Answered(r2)
    /\ reqs[r1].route = "matches"
    /\ SameAnswers(reqs[r1], reqs[r2])
    /\ reqs[r1].upsert = "error" /\ reqs[r2].upsert = "ok"
    /\ Len(reqs[r1].body) = 2
    /\ reqs[r1].body = reqs[r2].body
    /\ reqs[r1].written = <<>>
    /\ Len(reqs[r2].written) = 2

\* C16 as claimed: a job posting whose effective description is empty or
\* only whitespace is answered with 400 before any completion call and any
\* insert, and every row of job_listings has a non-blank description and
\* is_active = true.
C16_BlankDescriptionRejected ==
  /\ \A k \in 1..Len(job_listings) :
       /\ ~ Blank(job_listings[k].description)
       /\ job_listings[k].is_active
  /\ lastOp.route \in { "post", "legacy_post" } /\ lastOp.status = 400 =>
       ~ lastOp.called /\ ~ lastOp.inserted

\* the user has the profile row of its user_type
HasProfile(user) ==
  IF user.user_type = "job_seeker"
  THEN \E k \in 1..Len(job_seekers) : job_seekers[k].user_id = user.id
  ELSE \E k \in 1..Len(employers) : employers[k].user_id = user.id

\* C17 as claimed: after any sequence of registrations, succeeded or failed,
\* every row of users has its profile row in job_seekers or in employers; a
\* registration answered with an error leaves no row of users behind.
C17_RegistrationAllOrNothing ==
  \A k \in 1..Len(users) : HasProfile(users[k])

\* a score in hundredths (also the percentage of the response) is in 0..1.0
InRange(h) == 0 <= h /\ h <= 100

\* C18 as claimed: every match_score, technical_fit and behavioral_fit that
\* is written to matches, and every score that a matching route returns,
\* lies in the range 0 to 1.0 (0% to 100%), whatever numbers the completion
\* text holds.
C18_ScoresInRange ==
  /\ \A k \in 1..Len(matches) :
       /\ InRange(matches[k].match_score)
       /\ InRange(matches[k].technical_fit)
       /\ InRange(matches[k].behavioral_fit)
  /\ \A r \in ReqIds :
       Answered(r) =>
         \A k \in 1..Len(reqs[r].body) :
           /\ InRange(reqs[r].body[k].matchScore[1])
           /\ InRange(reqs[r].body[k].technicalFit[1])
           /\ InRange(reqs[r].body[k].behavioralFit[1])

\* express.static(uploadDir): a file is served under /uploads when it is in
\* the uploads directory
Served(file) == file \in uploads

\* C19 as claimed: when POST /api/jobseeker/register is answered with 400
\* after the resume was received, or with 500, the uploaded resume does not
\* remain in the uploads directory and is not reachable under /uploads.
C19_RejectedUploadRemoved ==
  lastOp.route = "register" /\ lastOp.status \in { 400, 500 } /\ lastOp.file # 0 =>
    /\ lastOp.file \notin uploads
    /\ ~ Served(lastOp.file)

====
